---------------------------- MODULE Spec2Model ----------------------------
(***************************************************************************)
(* Model of teller/pdf_processor.py: extraction of transactions from VISA  *)
(* (narrative) and CHEQUING/SAVINGS (tabular) statements, year inference,  *)
(* the seconds nudge, reconciliation and the aggregation of the per-file   *)
(* sets by get_transactions.                                               *)
(*                                                                         *)
(* Text is a sequence of one-character strings.  Amounts are integers in   *)
(* cents: every amount the patterns admit has exactly two decimals, so     *)
(* sums and round(x, 2) are exact at that resolution.  A datetime is a     *)
(* record [year, month, day, second], second being the second of the day.  *)
(* An optional value is <<>> (None) or <<v>>.                              *)
(***************************************************************************)
EXTENDS Integers, Sequences, FiniteSets, TLC

\* ------------------------------------------------------------------ bounds
MaxFiles == 2
MaxLines == 3
MaxFieldLen == 6

\* --------------------------------------------------------------- optionals
None == <<>>
Some(v) == <<v>>
IsNone(o) == o = <<>>
Val(o) == o[1]

\* -------------------------------------------------------------------- text
Digits == {"0", "1", "2", "3", "4", "5", "6", "7", "8", "9"}

DigitVal(c) ==
  CASE c = "0" -> 0 [] c = "1" -> 1 [] c = "2" -> 2 [] c = "3" -> 3
    [] c = "4" -> 4 [] c = "5" -> 5 [] c = "6" -> 6 [] c = "7" -> 7
    [] c = "8" -> 8 [] c = "9" -> 9

\* The text after the first i characters of s.
Drop(s, i) == SubSeq(s, i + 1, Len(s))

\* The position of the first occurrence of character c in s, 0 when absent.
Find(s, c) ==
  IF \E i \in 1..Len(s) : s[i] = c
  THEN CHOOSE i \in 1..Len(s) : s[i] = c /\ \A j \in 1..(i - 1) : s[j] # c
  ELSE 0

\* str.split(' '): cut at every single space, empty tokens kept.
RECURSIVE Split(_)
Split(s) ==
  LET i == Find(s, " ")
  IN IF i = 0 THEN <<s>>
     ELSE <<SubSeq(s, 1, i - 1)>> \o Split(Drop(s, i))

\* ' '.join(parts)
RECURSIVE Join(_)
Join(parts) ==
  IF Len(parts) = 0 THEN <<>>
  ELSE IF Len(parts) = 1 THEN parts[1]
  ELSE parts[1] \o <<" ">> \o Join(Tail(parts))

\* s.replace(c, '')
RECURSIVE Remove(_, _)
Remove(s, c) ==
  IF Len(s) = 0 THEN <<>>
  ELSE IF s[1] = c THEN Remove(Tail(s), c)
  ELSE <<s[1]>> \o Remove(Tail(s), c)

AllDigits(s) == \A i \in 1..Len(s) : s[i] \in Digits

\* The value of a text of decimal digits (0 for the empty text).
RECURSIVE DecVal(_)
DecVal(s) ==
  IF Len(s) = 0 THEN 0
  ELSE 10 * DecVal(SubSeq(s, 1, Len(s) - 1)) + DigitVal(s[Len(s)])

Signed(s) == Len(s) > 0 /\ s[1] \in {"-", "+"}
Unsigned(s) == IF Signed(s) THEN Tail(s) ELSE s
SignOf(s) == IF Len(s) > 0 /\ s[1] = "-" THEN -1 ELSE 1

\* int(s) succeeds: an optional sign, then one or more digits.
IsInt(s) == Len(Unsigned(s)) > 0 /\ AllDigits(Unsigned(s))
IntVal(s) == SignOf(s) * DecVal(Unsigned(s))

\* float(s) succeeds, for the decimal notations a statement prints: an
\* optional sign, digits, and optionally a point and at most two digits,
\* with a digit on at least one side of the point.
IsFloat(s) ==
  LET u == Unsigned(s)
      p == Find(u, ".")
      whole == IF p = 0 THEN u ELSE SubSeq(u, 1, p - 1)
      frac == IF p = 0 THEN <<>> ELSE Drop(u, p)
  IN /\ AllDigits(whole) /\ AllDigits(frac)
     /\ Len(whole) + Len(frac) > 0
     /\ Len(frac) <= 2

\* float(s), in cents.
FloatCents(s) ==
  LET u == Unsigned(s)
      p == Find(u, ".")
      whole == IF p = 0 THEN u ELSE SubSeq(u, 1, p - 1)
      frac == IF p = 0 THEN <<>> ELSE Drop(u, p)
      cents == IF Len(frac) = 1 THEN 10 * DecVal(frac) ELSE DecVal(frac)
  IN SignOf(s) * (100 * DecVal(whole) + cents)


\* ------------------------------------------------------------------- dates
\* The abbreviated month names '%b' accepts (statements print them in
\* upper case; strptime ignores case).
MonthAbbr ==
  << <<"J", "A", "N">>,
     <<"F", "E", "B">>,
     <<"M", "A", "R">>,
     <<"A", "P", "R">>,
     <<"M", "A", "Y">>,
     <<"J", "U", "N">>,
     <<"J", "U", "L">>,
     <<"A", "U", "G">>,
     <<"S", "E", "P">>,
     <<"O", "C", "T">>,
     <<"N", "O", "V">>,
     <<"D", "E", "C">> >>

\* datetime.strptime(tok, '%b').month, 0 standing for the ValueError.
StrpMonth(tok) ==
  IF \E m \in 1..12 : MonthAbbr[m] = tok
  THEN CHOOSE m \in 1..12 : MonthAbbr[m] = tok
  ELSE 0

\* The day '%d' reads from tok (one or two digits, 1..31), 0 standing for
\* the ValueError.
StrpDay(tok) ==
  IF Len(tok) \in {1, 2} /\ AllDigits(tok) /\ DecVal(tok) \in 1..31
  THEN DecVal(tok)
  ELSE 0

IsLeap(y) == (y % 4 = 0 /\ y % 100 # 0) \/ y % 400 = 0

DaysInMonth(y, m) ==
  IF m = 2 THEN (IF IsLeap(y) THEN 29 ELSE 28)
  ELSE IF m \in {4, 6, 9, 11} THEN 30 ELSE 31

\* datetime.strptime of a day token, a month token and a year: None stands
\* for the ValueError (a token of the wrong shape, or a day the month of
\* that year does not have).
Strptime(dayTok, monthTok, y) ==
  LET m == StrpMonth(monthTok)
      d == StrpDay(dayTok)
  IN IF m = 0 \/ d = 0 THEN None
     ELSE IF d > DaysInMonth(y, m) THEN None
     ELSE Some([year |-> y, month |-> m, day |-> d, second |-> 0])

SecondsPerDay == 86400

NextDay(dt) ==
  IF dt.day < DaysInMonth(dt.year, dt.month) THEN [dt EXCEPT !.day = @ + 1]
  ELSE IF dt.month < 12 THEN [dt EXCEPT !.day = 1, !.month = @ + 1]
  ELSE [dt EXCEPT !.day = 1, !.month = 1, !.year = @ + 1]

\* dt + timedelta(seconds=k), k >= 0.
RECURSIVE AddSeconds(_, _)
AddSeconds(dt, k) ==
  IF dt.second + k < SecondsPerDay THEN [dt EXCEPT !.second = @ + k]
  ELSE AddSeconds(NextDay([dt EXCEPT !.second = 0]),
                  dt.second + k - SecondsPerDay)

\* The order of datetimes (what sorted(key=lambda t: t.date) and the
\* comparisons of dates use).
Before(a, b) ==
  \/ a.year < b.year
  \/ a.year = b.year /\ a.month < b.month
  \/ a.year = b.year /\ a.month = b.month /\ a.day < b.day
  \/ a.year = b.year /\ a.month = b.month /\ a.day = b.day
       /\ a.second < b.second

\* ------------------------------------------------------------ transactions
AccountTypes == {"VISA", "CHEQUING", "SAVINGS"}

\* teller.model.Transaction: equality and hashing over the four fields.
Transaction(account_type, date, description, amount) ==
  [account_type |-> account_type, date |-> date,
   description |-> description, amount |-> amount]

\* sum([r.amount for r in transactions])
RECURSIVE SumAmounts(_)
SumAmounts(S) ==
  IF S = {} THEN 0
  ELSE LET t == CHOOSE t \in S : TRUE
       IN t.amount + SumAmounts(S \ {t})

\* ------------------------------------------------------------ get_start_year
\* The positions of name at which r"(?<=-)\d{4}" matches: four digits
\* right after a hyphen.
YearMatches(name) ==
  {i \in 2..(Len(name) - 3) :
     name[i - 1] = "-" /\ AllDigits(SubSeq(name, i, i + 3))}

\* get_start_year: the first match as an integer; None stands for the
\* AttributeError of re.search(...) returning None.
get_start_year(pdf_file_name) ==
  LET M == YearMatches(pdf_file_name)
  IN IF M = {} THEN None
     ELSE LET i == CHOOSE i \in M : \A j \in M : i <= j
          IN Some(DecVal(SubSeq(pdf_file_name, i, i + 3)))

\* ----------------------------------------------------------------- balances
\* The text a balance pattern is searched in is modelled by what it prints
\* after each label: a function from the labels to an optional amount text.
OpeningLabel(account_type) ==
  IF account_type = "VISA" THEN "Previous Account Balance"
  ELSE "Your opening balance"

ClosingLabel(account_type) ==
  IF account_type = "VISA" THEN "Total Account Balance"
  ELSE "Your closing balance"

\* The text the group "balance" captures.  The VISA patterns put the group
\* right after the label and keep a printed minus sign; the other patterns
\* have a greedy ".+" before the group, which takes the optional minus sign.
BalanceGroup(printed, account_type) ==
  IF account_type # "VISA" /\ Len(printed) > 0 /\ printed[1] = "-"
  THEN Tail(printed)
  ELSE printed

\* _get_opening_bal / _get_closing_bal, in cents; None stands for the
\* AttributeError of match.groupdict() on a pattern that is not found.
GetBal(printed, account_type) ==
  IF IsNone(printed) THEN None
  ELSE Some(FloatCents(Remove(Remove(BalanceGroup(Val(printed), account_type),
                                     ","), "$")))

_get_opening_bal(pdf_text, account_type) ==
  GetBal(pdf_text[OpeningLabel(account_type)], account_type)

_get_closing_bal(pdf_text, account_type) ==
  GetBal(pdf_text[ClosingLabel(account_type)], account_type)

\* ---------------------------------------------------------------- _validate
\* net, as _validate computes it (cents need no rounding).
Net(transactions) == SumAmounts(transactions)

\* _validate returns (TRUE) or raises AssertionError (FALSE).
Reconciles(opening_bal, closing_bal, transactions) ==
  closing_bal - opening_bal = Net(transactions)

\* Mutant: _parse_visa passing the balances in the order of the parameters.
VisaValidateArgsUnswapped(opening_bal, closing_bal) ==
  [opening_bal |-> opening_bal, closing_bal |-> closing_bal]

\* The order in which _parse_visa passes the balances to _validate
\* (line 116: closing first), and _parse_cheq_save (line 181).
VisaValidateArgs(opening_bal, closing_bal) ==
  [opening_bal |-> closing_bal, closing_bal |-> opening_bal]

TabValidateArgs(opening_bal, closing_bal) ==
  [opening_bal |-> opening_bal, closing_bal |-> closing_bal]

\* ------------------------------------------------- combined date/description
\* Lines 138-149: the 'Date' and 'Description' a combined field gives.
NoDateSplit(f) == [Date |-> None, Description |-> f]

\* Mutant: a day number starts at 1.
SplitDateDescriptionFromOne(f) ==
  LET parts == Split(f)
  IN IF Len(parts) > 2
     THEN IF ~IsInt(parts[1]) THEN NoDateSplit(f)
          ELSE IF 1 <= IntVal(parts[1]) /\ IntVal(parts[1]) <= 31
          THEN [Date |-> Some(Join(SubSeq(parts, 1, 2))),
                Description |-> Join(SubSeq(parts, 3, Len(parts)))]
          ELSE NoDateSplit(f)
     ELSE NoDateSplit(f)

SplitDateDescription(f) ==
  LET parts == Split(f)
  IN IF Len(parts) > 2
     THEN IF ~IsInt(parts[1]) THEN NoDateSplit(f)          \* except ValueError
          ELSE IF 0 <= IntVal(parts[1]) /\ IntVal(parts[1]) <= 31
          THEN [Date |-> Some(Join(SubSeq(parts, 1, 2))),
                Description |-> Join(SubSeq(parts, 3, Len(parts)))]
          ELSE NoDateSplit(f)
     ELSE NoDateSplit(f)

\* ------------------------------------------------------------------- inputs
\* File names (pdf_path.name) and the directories the files lie in
\* (pdf_path.parts[-2]).
FileNames ==
  { <<"1", "9", "9", "9", "-", "2", "0", "2", "3", ".", "P", "D", "F">>,
    <<"B", "-", "2", "0", "2", "4", ".", "P", "D", "F">>,
    <<"N", "O", "Y", "E", "A", "R", ".", "P", "D", "F">> }

Directories == {"visa", "chequing", "savings", "other"}

BalanceText(a, b, c, d) ==
  [l \in {"Previous Account Balance", "Total Account Balance",
          "Your opening balance", "Your closing balance"} |->
     CASE l = "Previous Account Balance" -> a
       [] l = "Total Account Balance" -> b
       [] l = "Your opening balance" -> c
       [] l = "Your closing balance" -> d]

\* What the balance region of a VISA statement prints
\* (_get_text_for_balances of the first page).
VisaBalanceTexts ==
  { BalanceText(Some(<<"$", "1", "0", "0", ".", "0", "0">>), Some(<<"$", "5", "0", ".", "0", "0">>), None, None),
    BalanceText(Some(<<"$", "1", "0", "0", ".", "0", "0">>), Some(<<"$", "1", "5", "0", ".", "0", "0">>), None, None),
    BalanceText(Some(<<"$", "1", "0", "0", ".", "0", "0">>), Some(<<"$", "1", "0", "0", ".", "0", "0">>), None, None),
    BalanceText(Some(<<"$", "1", "0", "0", ".", "0", "0">>), None, None, None) }

\* What the text of a CHEQUING or SAVINGS statement prints after the two
\* balance labels.
TabBalanceTexts ==
  { BalanceText(None, None, Some(<<"$", "1", "0", "0", ".", "0", "0">>), Some(<<"$", "1", "5", "0", ".", "0", "0">>)),
    BalanceText(None, None, Some(<<"-", "$", "1", "0", "0", ".", "0", "0">>), Some(<<"$", "5", "0", ".", "0", "0">>)),
    BalanceText(None, None, None, Some(<<"$", "5", "0", ".", "0", "0">>)) }

\* The shape VISA_TRANSACTION_REGEX gives the groups of a match: dates is
\* two tokens of three word characters, each followed by a space, two
\* digits and a space; description is not empty; amount is an optional
\* minus sign, "$", digits and commas, a point and two digits.
VisaShape(m) ==
  LET d == Split(m.dates)
      a == IF Len(m.amount) > 0 /\ m.amount[1] = "-"
           THEN Tail(m.amount) ELSE m.amount
      p == Find(a, ".")
  IN /\ Len(d) = 5 /\ d[5] = <<>>
     /\ Len(d[1]) = 3 /\ Len(d[3]) = 3
     /\ Len(d[2]) = 2 /\ AllDigits(d[2])
     /\ Len(d[4]) = 2 /\ AllDigits(d[4])
     /\ Len(m.description) > 0
     /\ Len(a) > 0 /\ a[1] = "$"
     /\ p > 2 /\ Len(a) = p + 2
     /\ \A i \in 2..(p - 1) : a[i] \in Digits \cup {","}
     /\ AllDigits(Drop(a, p))

\* The matches re.finditer yields, one per printed transaction line.
VisaMatches ==
  { m \in
    { [dates |-> <<"J", "A", "N", " ", "0", "5", " ", "J", "A", "N", " ", "0", "6", " ">>,
       description |-> <<"C", "O", "F", "F", "E", "E", " ", "S", "H", "O", "P">>,
       amount |-> <<"$", "5", "0", ".", "0", "0">>],
      [dates |-> <<"D", "E", "C", " ", "3", "1", " ", "J", "A", "N", " ", "0", "2", " ">>,
       description |-> <<"C", "O", "F", "F", "E", "E", " ", "S", "H", "O", "P">>,
       amount |-> <<"$", "5", "0", ".", "0", "0">>],
      [dates |-> <<"F", "E", "B", " ", "2", "9", " ", "M", "A", "R", " ", "0", "1", " ">>,
       description |-> <<"R", "E", "F", "U", "N", "D">>,
       amount |-> <<"-", "$", "5", "0", ".", "0", "0">>],
      [dates |-> <<"J", "A", "N", " ", "0", "2", " ", "J", "A", "N", " ", "0", "3", " ">>,
       description |-> <<"P", "A", "Y", "M", "E", "N", "T">>,
       amount |-> <<"-", "$", "1", ",", "0", "0", "0", ".", "0", "0">>],
      [dates |-> <<"F", "O", "O", " ", "0", "5", " ", "B", "A", "R", " ", "0", "6", " ">>,
       description |-> <<"X">>,
       amount |-> <<"$", "5", "0", ".", "0", "0">>] } :
    VisaShape(m) }

\* The rows tabula returns, blank cells as None: rows with a combined
\* 'Date Description' column, rows with separate 'Date' and 'Description'
\* columns, and rows of a table without any date column.
CombinedRow(dd, w, d) ==
  [k \in {"Date Description", "Withdrawals ($)", "Deposits ($)"} |->
     CASE k = "Date Description" -> dd
       [] k = "Withdrawals ($)" -> w
       [] k = "Deposits ($)" -> d]

SeparateRow(dt, ds, w, d) ==
  [k \in {"Date", "Description", "Withdrawals ($)", "Deposits ($)"} |->
     CASE k = "Date" -> dt
       [] k = "Description" -> ds
       [] k = "Withdrawals ($)" -> w
       [] k = "Deposits ($)" -> d]

UndatedRow(ds, w, d) ==
  [k \in {"Description", "Withdrawals ($)", "Deposits ($)"} |->
     CASE k = "Description" -> ds
       [] k = "Withdrawals ($)" -> w
       [] k = "Deposits ($)" -> d]

TabRecords ==
  { CombinedRow(Some(<<"1", "5", " ", "J", "A", "N", " ", "G", "R", "O", "C", "E", "R", "Y">>), Some(<<"5", "0", ".", "0", "0">>), None),
    CombinedRow(Some(<<"G", "R", "O", "C", "E", "R", "Y", " ", "C", "O", "N", "T", "'", "D">>), None, Some(<<"5", "0", ".", "0", "0">>)),
    CombinedRow(Some(<<"1", "0", " ", "J", "A", "N", " ", "R", "E", "N", "T">>), Some(<<"5", "0", ".", "0", "0">>), None),
    CombinedRow(Some(<<"2", "0", " ", "D", "E", "C", " ", "P", "A", "Y">>), None, None),
    CombinedRow(Some(<<"0", " ", "J", "A", "N", " ", "F", "E", "E">>), Some(<<"5", "0", ".", "0", "0">>), None),
    CombinedRow(Some(<<"3", "1", " ", "F", "E", "B", " ", "F", "E", "E">>), Some(<<"5", "0", ".", "0", "0">>), None),
    CombinedRow(Some(<<"1", "5", " ", "F", "O", "O", " ", "B", "A", "R">>), Some(<<"5", "0", ".", "0", "0">>), None),
    CombinedRow(None, None, None),
    SeparateRow(Some(<<"1", "5", " ", "J", "A", "N">>), Some(<<"G", "R", "O", "C", "E", "R", "Y">>), None, Some(<<"1", ",", "0", "0", "0", ".", "0", "0">>)),
    SeparateRow(None, Some(<<"I", "N", "T", "E", "R", "E", "S", "T">>), Some(<<"F", "R", "E", "E">>), None),
    UndatedRow(Some(<<"T", "O", "T", "A", "L">>), Some(<<"5", "0", ".", "0", "0">>), None) }

\* -------------------------------------------------------------------- state
VARIABLES
  pc,           \* "idle": get_transactions between two files; "visa", "tab":
                \* inside the loop of _parse_visa / _parse_cheq_save;
                \* "returned"; "raised": an exception left get_transactions
  err,          \* the exception that was raised, "" when none
  result,       \* get_transactions: the aggregate set
  nfiles,       \* the files rglob has yielded so far
  account_type, \* of the statement being parsed
  year,         \* the running year of the statement being parsed
  start_year,   \* get_start_year of its file name
  opening_bal,  \* _get_opening_bal of the statement
  closing_bal,  \* _get_closing_bal of the statement
  last_month,   \* _parse_visa: optional month of the previous match
  last_date,    \* _parse_cheq_save: optional date of the last dated row
  add_seconds,  \* the per-statement counter of transactions added
  file_result,  \* the result set local to _parse_visa / _parse_cheq_save
  log,          \* history: one entry per match or row handled, in order
  validated,    \* history: the last call of _validate, optional: the
                \* statement, the arguments passed and the outcome
  field,        \* a combined 'Date Description' field
  split         \* optional: what lines 138-149 made of field

vars == <<pc, err, result, nfiles, account_type, year, start_year,
          opening_bal, closing_bal, last_month, last_date, add_seconds,
          file_result, log, validated, field, split>>

locals == <<account_type, year, start_year, opening_bal, closing_bal,
            last_month, last_date, add_seconds, file_result, log>>

\* The locals of a parse function that is not running.
NoStatement ==
  /\ account_type = ""
  /\ year = 0
  /\ start_year = 0
  /\ opening_bal = 0
  /\ closing_bal = 0
  /\ last_month = None
  /\ last_date = None
  /\ add_seconds = 0
  /\ file_result = {}
  /\ log = <<>>

Init ==
  /\ pc = "idle"
  /\ err = ""
  /\ result = {}
  /\ nfiles = 0
  /\ NoStatement
  /\ validated = None
  /\ field = <<>>
  /\ split = None

\* A parse function returns: its locals are gone.
ResetStatement ==
  /\ account_type' = ""
  /\ year' = 0
  /\ start_year' = 0
  /\ opening_bal' = 0
  /\ closing_bal' = 0
  /\ last_month' = None
  /\ last_date' = None
  /\ add_seconds' = 0
  /\ file_result' = {}
  /\ log' = <<>>

\* An exception leaves get_transactions: nothing is returned.
Raise(e) ==
  /\ pc' = "raised"
  /\ err' = e

\* One entry of the history of a statement.
\*   kind      "txn": a transaction was added; "skip": continue;
\*             "error": the row raised
\*   combined  the row had a 'Date Description' field
\*   dated     the row had a date text, which was resolved to a date
\*   absent    the row's date was None (carry-forward)
\*   monetary  a withdrawal or a deposit was populated
\*   month     the month read from the row, 0 when none was read
\*   year_after, last_after   the running year and the last known date
\*             (last_month for VISA is month) after the row
\*   base      optional: the date given to Transaction(...), before the nudge
\*   txn       optional: the transaction added
\*   source    the printed text: the matched line, or the row's combined
\*             field or date cell (empty for None or no such cell)
Entry(kind, combined, dated, absent, monetary, month, y, last, base, txn,
      source) ==
  [kind |-> kind, combined |-> combined, dated |-> dated, absent |-> absent,
   monetary |-> monetary, month |-> month, year_after |-> y,
   last_after |-> last, base |-> base, txn |-> txn, source |-> source]

\* --------------------------------------------------------- get_transactions
\* Lines 24-34: the next file of rglob; its start year; the dispatch on its
\* directory; and the parse function up to its loop (the balances).  The
\* directory tree holds at most `limit` files.
OpenFile(limit, dir, name, pdf_text) ==
  /\ pc = "idle"
  /\ nfiles < limit
  /\ nfiles' = nfiles + 1
  /\ UNCHANGED <<result, validated, field, split>>
  /\ LET y == get_start_year(name)
         at == CASE dir = "visa" -> "VISA"
                 [] dir = "chequing" -> "CHEQUING"
                 [] dir = "savings" -> "SAVINGS"
                 [] OTHER -> ""
         ob == _get_opening_bal(pdf_text, at)
         cb == _get_closing_bal(pdf_text, at)
     IN IF IsNone(y)
        THEN Raise("AttributeError") /\ UNCHANGED locals
        ELSE IF at = ""
        THEN UNCHANGED <<pc, err>> /\ UNCHANGED locals
        ELSE IF IsNone(ob) \/ IsNone(cb)
        THEN Raise("AttributeError") /\ UNCHANGED locals
        ELSE /\ pc' = IF at = "VISA" THEN "visa" ELSE "tab"
             /\ err' = err
             /\ account_type' = at
             /\ year' = Val(y)
             /\ start_year' = Val(y)
             /\ opening_bal' = Val(ob)
             /\ closing_bal' = Val(cb)
             /\ UNCHANGED <<last_month, last_date, add_seconds,
                            file_result, log>>

\* Line 35: rglob is exhausted.
Return ==
  /\ pc = "idle"
  /\ pc' = "returned"
  /\ UNCHANGED <<err, result, nfiles, validated, field, split>>
  /\ UNCHANGED locals

\* Mutant: a mismatch is only reported, and the set is merged all the same.
FinishWarnOnly(args) ==
  /\ validated' = Some([account_type |-> account_type,
                        start_year |-> start_year,
                        opening_bal |-> opening_bal,
                        closing_bal |-> closing_bal,
                        arg_opening |-> args.opening_bal,
                        arg_closing |-> args.closing_bal,
                        transactions |-> file_result,
                        log |-> log,
                        ok |-> Reconciles(args.opening_bal, args.closing_bal,
                                          file_result)])
  /\ UNCHANGED <<nfiles, field, split>>
  /\ result' = result \cup file_result
  /\ pc' = "idle"
  /\ err' = err
  /\ ResetStatement

\* The end of a parse function: _validate, then `result |= ...` in
\* get_transactions, or the AssertionError.
Finish(args) ==
  LET ok == Reconciles(args.opening_bal, args.closing_bal, file_result)
  IN /\ validated' = Some([account_type |-> account_type,
                           start_year |-> start_year,
                           opening_bal |-> opening_bal,
                           closing_bal |-> closing_bal,
                           arg_opening |-> args.opening_bal,
                           arg_closing |-> args.closing_bal,
                           transactions |-> file_result,
                           log |-> log,
                           ok |-> ok])
     /\ UNCHANGED <<nfiles, field, split>>
     /\ IF ok
        THEN /\ result' = result \cup file_result
             /\ pc' = "idle"
             /\ err' = err
             /\ ResetStatement
        ELSE /\ Raise("AssertionError")
             /\ UNCHANGED result
             /\ UNCHANGED locals

\* -------------------------------------------------------------- _parse_visa
\* Mutant: the year only ever moves forward.
VisaYearForwardOnly(y, last, month) ==
  IF IsNone(last) THEN y
  ELSE IF month = 1 /\ Val(last) = 12 THEN y + 1 ELSE y

\* Lines 97-101: the running year after a match of month `month`.
VisaYear(y, last, month) ==
  IF IsNone(last) THEN y
  ELSE LET y1 == IF month = 1 /\ Val(last) = 12 THEN y + 1 ELSE y
       IN IF month = 12 /\ Val(last) = 1 THEN y1 - 1 ELSE y1

\* Lines 104, 164, 166: the amount of a printed text, in cents.
ParseAmount(text) == FloatCents(Remove(Remove(text, "$"), ","))

\* Mutant: the printed amount taken as it is.
VisaAmountNotNegated(text) == ParseAmount(text)

\* Line 104: a printed charge is an outflow.
VisaAmount(text) == -ParseAmount(text)

\* Mutant: no nudge.
NudgeNone(date, seconds) == date

PrevDay(dt) ==
  IF dt.day > 1 THEN [dt EXCEPT !.day = @ - 1]
  ELSE IF dt.month > 1
  THEN [dt EXCEPT !.month = @ - 1, !.day = DaysInMonth(dt.year, dt.month - 1)]
  ELSE [dt EXCEPT !.year = @ - 1, !.month = 12, !.day = 31]

\* Mutant: the seconds are subtracted (fewer than a day of them).
NudgeBack(date, seconds) ==
  IF seconds = 0 THEN date
  ELSE [PrevDay(date) EXCEPT !.second = SecondsPerDay - seconds]

\* Lines 111 and 176: transaction.date += timedelta(seconds=add_seconds).
Nudge(date, seconds) == AddSeconds(date, seconds)

\* Lines 93-114: one iteration of the loop over the matches.
VisaMatch(match) ==
  /\ pc = "visa"
  /\ Len(log) < MaxLines
  /\ UNCHANGED <<result, nfiles, account_type, start_year, opening_bal,
                 closing_bal, last_date, validated, field, split>>
  /\ LET date == Join(SubSeq(Split(match.dates), 1, 2))
         toks == Split(date)
         month == StrpMonth(toks[1])
         y == VisaYear(year, last_month, month)
         dt == Strptime(toks[2], toks[1], y)
         amount == VisaAmount(match.amount)
         txn == Transaction("VISA", Nudge(Val(dt), add_seconds),
                            match.description, amount)
         line == match.dates \o match.description \o <<" ">> \o match.amount
     IN IF month = 0
        THEN \* line 96 raises ValueError
             /\ Raise("ValueError")
             /\ log' = Append(log, Entry("error", FALSE, FALSE, FALSE, TRUE,
                                         0, year, last_month, None, None,
                                         line))
             /\ UNCHANGED <<year, last_month, add_seconds, file_result>>
        ELSE IF IsNone(dt)
        THEN \* line 103 raises ValueError
             /\ Raise("ValueError")
             /\ year' = y
             /\ last_month' = Some(month)
             /\ log' = Append(log, Entry("error", FALSE, FALSE, FALSE, TRUE,
                                         month, y, Some(month), None, None,
                                         line))
             /\ UNCHANGED <<add_seconds, file_result>>
        ELSE /\ UNCHANGED <<pc, err>>
             /\ year' = y
             /\ last_month' = Some(month)
             /\ add_seconds' = add_seconds + 1
             /\ file_result' = file_result \cup {txn}
             /\ log' = Append(log, Entry("txn", FALSE, TRUE, FALSE, TRUE,
                                         month, y, Some(month), dt, Some(txn),
                                         line))

\* Lines 116-118 and line 28.
VisaReturn ==
  /\ pc = "visa"
  /\ Finish(VisaValidateArgs(opening_bal, closing_bal))

\* --------------------------------------------------------- _parse_cheq_save
\* Mutant: a row of the same month rolls the year too.
TabYearSameMonth(y, last, month) ==
  IF ~IsNone(last) /\ month <= Val(last).month THEN y + 1 ELSE y

\* Lines 158-159: the running year at a dated row of month `month`.
TabYear(y, last, month) ==
  IF ~IsNone(last) /\ month < Val(last).month THEN y + 1 ELSE y

\* Lines 137-179: one iteration of the loop over the rows of
\* records[1:len(records)-1].
TabRecord(record) ==
  /\ pc = "tab"
  /\ Len(log) < MaxLines
  /\ UNCHANGED <<result, nfiles, account_type, start_year, opening_bal,
                 closing_bal, last_month, validated, field, split>>
  /\ LET combined == "Date Description" \in DOMAIN record
         sp == SplitDateDescription(Val(record["Date Description"]))
         has_date == combined \/ "Date" \in DOMAIN record
         date_str == IF combined THEN sp.Date ELSE record["Date"]
         description == IF combined THEN sp.Description
                        ELSE Val(record["Description"])
         absent == IsNone(date_str)
         toks == IF absent THEN <<>> ELSE Split(Val(date_str))
         month == IF Len(toks) < 2 THEN 0 ELSE StrpMonth(toks[2])
         y == IF absent THEN year ELSE TabYear(year, last_date, month)
         dt == IF Len(toks) = 2 THEN Strptime(toks[1], toks[2], y) ELSE None
         date == IF absent THEN last_date ELSE dt
         w == record["Withdrawals ($)"]
         d == record["Deposits ($)"]
         monetary == ~IsNone(w) \/ ~IsNone(d)
         text == Remove(Val(IF ~IsNone(w) THEN w ELSE d), ",")
         amount == IF ~IsNone(w) THEN -FloatCents(text) ELSE FloatCents(text)
         txn == Transaction(account_type, Nudge(Val(date), add_seconds),
                            description, amount)
         source == IF combined THEN Val(record["Date Description"])
                   ELSE IF absent THEN <<>> ELSE Val(date_str)
         Fail(e, m, yr, last, dated) ==
           /\ Raise(e)
           /\ year' = yr
           /\ last_date' = last
           /\ log' = Append(log, Entry("error", combined, dated, absent,
                                       monetary, m, yr, last, None, None,
                                       source))
           /\ UNCHANGED <<add_seconds, file_result>>
     IN IF combined /\ IsNone(record["Date Description"])
        THEN \* line 139: None has no split
             /\ Raise("AttributeError")
             /\ log' = Append(log, Entry("error", TRUE, FALSE, FALSE,
                                         monetary, 0, year, last_date,
                                         None, None, <<>>))
             /\ UNCHANGED <<year, last_date, add_seconds, file_result>>
        ELSE IF ~has_date
        THEN \* line 152: continue
             /\ UNCHANGED <<pc, err, year, last_date, add_seconds,
                            file_result>>
             /\ log' = Append(log, Entry("skip", FALSE, FALSE, FALSE,
                                         monetary, 0, year, last_date,
                                         None, None, <<>>))
        ELSE IF ~absent /\ Len(toks) < 2
        THEN Fail("IndexError", 0, year, last_date, FALSE)     \* line 157
        ELSE IF ~absent /\ month = 0
        THEN Fail("ValueError", 0, year, last_date, FALSE)     \* line 157
        ELSE IF ~absent /\ IsNone(dt)
        THEN Fail("ValueError", month, y, last_date, FALSE)    \* line 160
        ELSE IF monetary /\ ~IsFloat(text)
        THEN Fail("ValueError", month, y, date, ~absent)       \* lines 164, 166
        ELSE IF ~monetary
        THEN \* line 168: continue
             /\ UNCHANGED <<pc, err, add_seconds, file_result>>
             /\ year' = y
             /\ last_date' = date
             /\ log' = Append(log, Entry("skip", combined, ~absent, absent,
                                         FALSE, month, y, date, None, None,
                                         source))
        ELSE IF IsNone(date)
        THEN Fail("TypeError", month, y, date, FALSE)          \* line 176
        ELSE /\ UNCHANGED <<pc, err>>
             /\ year' = y
             /\ last_date' = date
             /\ add_seconds' = add_seconds + 1
             /\ file_result' = file_result \cup {txn}
             /\ log' = Append(log, Entry("txn", combined, ~absent, absent,
                                         TRUE, month, y, date, date,
                                         Some(txn), source))

\* Lines 181-183 and lines 31, 34.
TabReturn ==
  /\ pc = "tab"
  /\ Finish(TabValidateArgs(opening_bal, closing_bal))

\* --------------------------------------------------------------------- Spec
\* A directory tree of one statement file, of any content.
Next ==
  \/ \E dir \in Directories, name \in FileNames,
        pdf_text \in VisaBalanceTexts \cup TabBalanceTexts :
       OpenFile(1, dir, name, pdf_text)
  \/ \E match \in VisaMatches : VisaMatch(match)
  \/ VisaReturn
  \/ \E record \in TabRecords : TabRecord(record)
  \/ TabReturn
  \/ Return

Spec == Init /\ [][Next]_vars

\* A directory tree of up to MaxFiles statement files, the statements drawn
\* from a few lines, rows and balances.
RunNames == {n \in FileNames : get_start_year(n) = Some(2023)}

RunBalanceTexts ==
  {t \in VisaBalanceTexts \cup TabBalanceTexts :
     /\ \A l \in DOMAIN t :
          IsNone(t[l])
             \/ ParseAmount(Val(t[l])) \in {5000, 10000, -10000, 15000}
     /\ \/ ~IsNone(t["Previous Account Balance"])
             /\ ~IsNone(t["Total Account Balance"])
        \/ ~IsNone(t["Your opening balance"])
             /\ ~IsNone(t["Your closing balance"])}

RunMatches ==
  {m \in VisaMatches : Split(m.dates)[1] = MonthAbbr[1]
                         /\ ParseAmount(m.amount) = 5000}

RunRecords ==
  {r \in TabRecords :
     /\ "Date Description" \in DOMAIN r
     /\ ~IsNone(r["Date Description"])
     /\ Split(Val(r["Date Description"]))[1] \in
          {<<"1", "5">>, <<"G", "R", "O", "C", "E", "R", "Y">>}}

NextRun ==
  \/ \E dir \in Directories, name \in RunNames, pdf_text \in RunBalanceTexts :
       OpenFile(MaxFiles, dir, name, pdf_text)
  \/ \E match \in RunMatches : VisaMatch(match)
  \/ VisaReturn
  \/ \E record \in RunRecords : TabRecord(record)
  \/ TabReturn
  \/ Return

SpecRun == Init /\ [][NextRun]_vars

\* The split of a combined field, for every field over a small alphabet.
Alphabet == {" ", "0", "1", "3", "-", "A"}

ExampleFields ==
  { <<"1", "5", " ", "J", "A", "N", " ", "G", "R", "O", "C", "E", "R", "Y",
      " ", "S", "T", "O", "R", "E">>,
    <<"G", "R", "O", "C", "E", "R", "Y", " ", "S", "T", "O", "R", "E", " ",
      "C", "O", "N", "T", "'", "D">>,
    <<"3", "2", " ", "J", "A", "N", " ", "F", "E", "E">>,
    <<"+", "5", " ", "J", "A", "N", " ", "F", "E", "E">> }

Fields ==
  UNION {[1..n -> Alphabet] : n \in 0..MaxFieldLen} \cup ExampleFields

InitSplit ==
  /\ pc = "split"
  /\ err = ""
  /\ result = {}
  /\ nfiles = 0
  /\ NoStatement
  /\ validated = None
  /\ field \in Fields
  /\ split = None

\* Lines 138-149 applied to field.
DoSplit ==
  /\ pc = "split"
  /\ IsNone(split)
  /\ split' = Some(SplitDateDescription(field))
  /\ UNCHANGED <<pc, err, result, nfiles, validated, field>>
  /\ UNCHANGED locals

NextSplit == DoSplit

SpecSplit == InitSplit /\ [][NextSplit]_vars

\* =================================================================== claims
\* The statement _validate was last called on.
V == Val(validated)

Accepted == ~IsNone(validated) /\ V.ok

\* The amounts of the transactions a history added, summed in document order.
RECURSIVE LogSum(_)
LogSum(l) ==
  IF Len(l) = 0 THEN 0
  ELSE LogSum(SubSeq(l, 1, Len(l) - 1))
       + (IF l[Len(l)].kind = "txn" THEN Val(l[Len(l)].txn).amount ELSE 0)

\* C1, as stated: for every accepted statement, whatever its account type,
\* the sum of the amounts of its transaction set equals closing_bal -
\* opening_bal, the balances extracted from that statement.
C1_AcceptedNetIsClosingMinusOpening ==
  Accepted => LogSum(V.log) = V.closing_bal - V.opening_bal

\* C1, amended: for every accepted CHEQUING or SAVINGS statement the sum of
\* the amounts equals closing_bal - opening_bal; for every accepted VISA
\* statement it equals opening_bal - closing_bal.
C1_AcceptedNet ==
  Accepted =>
    /\ LogSum(V.log) = SumAmounts(V.transactions)
    /\ IF V.account_type = "VISA"
       THEN LogSum(V.log) = V.opening_bal - V.closing_bal
       ELSE LogSum(V.log) = V.closing_bal - V.opening_bal

\* C1, witness: a VISA statement and its transactions were accepted with
\* different opening and closing balances.
C1_Witness ==
  /\ Accepted
  /\ V.account_type = "VISA"
  /\ V.transactions # {}
  /\ V.opening_bal # V.closing_bal

\* The line "JAN 05 JAN 06 COFFEE SHOP $50.00" and the transaction
\* (VISA, 2023-01-05, "COFFEE SHOP", -50.00).
CoffeeLine ==
  <<"J", "A", "N", " ", "0", "5", " ", "J", "A", "N", " ", "0", "6", " ",
    "C", "O", "F", "F", "E", "E", " ", "S", "H", "O", "P", " ",
    "$", "5", "0", ".", "0", "0">>

CoffeeTransaction ==
  [account_type |-> "VISA",
   date |-> [year |-> 2023, month |-> 1, day |-> 5, second |-> 0],
   description |-> <<"C", "O", "F", "F", "E", "E", " ", "S", "H", "O", "P">>,
   amount |-> -5000]

\* _validate was called on the VISA statement of seed year 2023 that
\* reports opening $100.00 and the given closing balance and prints the
\* single line CoffeeLine.
CoffeeStatement(closing) ==
  /\ ~IsNone(validated)
  /\ V.account_type = "VISA"
  /\ V.start_year = 2023
  /\ V.opening_bal = 10000
  /\ V.closing_bal = closing
  /\ Len(V.log) = 1
  /\ V.log[1].source = CoffeeLine

\* C2, as stated: the VISA statement with opening $100.00, closing $50.00
\* and the single line CoffeeLine yields exactly CoffeeTransaction and
\* reconciles: no error, the one-element set is returned.
C2_CoffeeReconciles ==
  CoffeeStatement(5000) =>
    /\ V.transactions = {CoffeeTransaction}
    /\ V.ok
    /\ pc # "raised"

\* C2, amended: that statement yields exactly CoffeeTransaction, but
\* reconciliation fails with AssertionError and nothing is merged; the
\* same statement with closing $150.00 reconciles and its one-element set
\* is merged.
C2_Coffee ==
  /\ CoffeeStatement(5000) =>
       /\ V.transactions = {CoffeeTransaction}
       /\ ~V.ok
       /\ pc = "raised" /\ err = "AssertionError"
       /\ result = {}
  /\ CoffeeStatement(15000) =>
       /\ V.transactions = {CoffeeTransaction}
       /\ V.ok
       /\ pc # "raised"
       /\ result = {CoffeeTransaction}

\* C2, witness: the statement with closing $50.00 was validated.
C2_Witness == CoffeeStatement(5000) /\ V.transactions = {CoffeeTransaction}

\* C3: every set merged into the aggregate result has passed the check
\* of _validate (the sum of the amounts against the balance delta it is
\* given: opening - closing from _parse_visa, closing - opening from
\* _parse_cheq_save); when the check fails the error is raised, the
\* aggregate is left as it was, and get_transactions never returns.
C3_ReconciliationGate ==
  [][LET parsing == pc \in {"visa", "tab"}
         delta == IF pc = "visa" THEN opening_bal - closing_bal
                  ELSE closing_bal - opening_bal
         passes == delta = LogSum(log)
     IN /\ result' # result =>
             parsing /\ passes /\ result' = result \cup file_result
        /\ (parsing /\ pc' = "idle") =>
             passes /\ result' = result \cup file_result
        /\ (parsing /\ ~passes /\ pc' \notin {"visa", "tab"}) =>
             pc' = "raised" /\ result' = result
        /\ pc = "raised" => pc' = "raised" /\ result' = result
        /\ pc' = "returned" => pc = "idle" /\ result' = result]_vars

\* C3, witness: a statement failed the check after another had been merged.
C3_Witness ==
  /\ pc = "raised"
  /\ err = "AssertionError"
  /\ result # {}
  /\ ~IsNone(validated) /\ ~V.ok /\ V.transactions # {}

\* The positions of the history at which a transaction was added.
TxnIdx == {i \in 1..Len(log) : log[i].kind = "txn"}

\* The number of transactions added before position i.
Rank(i) == Cardinality({j \in TxnIdx : j < i})

\* The identity key of the transaction of position i before the nudge.
KeyBefore(i) ==
  <<Val(log[i].txn).account_type, Val(log[i].base),
    Val(log[i].txn).description, Val(log[i].txn).amount>>

\* C4: the k-th transaction added in a statement (k from 0, skipped rows
\* not counted) has its date advanced by exactly k seconds; transactions
\* that share (account, date, description, amount) before the nudge are
\* pairwise distinct after it, with timestamps strictly increasing in
\* document order; and the statement's set holds as many elements as
\* transactions were built.
C4_Nudge ==
  /\ \A i \in TxnIdx :
       Val(log[i].txn).date =
         [Val(log[i].base) EXCEPT !.second = Val(log[i].base).second + Rank(i)]
  /\ \A i \in TxnIdx : \A j \in TxnIdx :
       (i < j /\ KeyBefore(i) = KeyBefore(j)) =>
         /\ Val(log[i].txn) # Val(log[j].txn)
         /\ Before(Val(log[i].txn).date, Val(log[j].txn).date)
  /\ Cardinality(file_result) = Cardinality(TxnIdx)
  /\ file_result = {Val(log[i].txn) : i \in TxnIdx}
  /\ add_seconds = Cardinality(TxnIdx)

\* C4, witness: three transactions of one statement with the same key
\* before the nudge, a skipped row among the rows of the statement.
C4_Witness ==
  /\ \E i \in TxnIdx : \E j \in TxnIdx :
       i < j /\ KeyBefore(i) = KeyBefore(j) /\ Rank(j) = 1
  /\ \E i \in 1..Len(log) : log[i].kind = "skip"

\* The change of the running year the claim gives for previous month p and
\* month m.
VisaStep(p, m) ==
  IF p = 12 /\ m = 1 THEN 1 ELSE IF p = 1 /\ m = 12 THEN -1 ELSE 0

\* C5: in a VISA statement the first matched line is dated in the seed
\* year; for every later line, of month m after a line of month p, the
\* running year becomes year + 1 when p = 12 and m = 1, year - 1 when p = 1
\* and m = 12, and is unchanged otherwise; the line is dated in that year.
C5_VisaYear ==
  account_type = "VISA" =>
    \A i \in 1..Len(log) :
      /\ log[i].month # 0 =>
           log[i].year_after =
             IF i = 1 THEN start_year
             ELSE log[i - 1].year_after
                  + VisaStep(log[i - 1].month, log[i].month)
      /\ log[i].kind = "txn" =>
           /\ Val(log[i].txn).date.year = log[i].year_after
           /\ Val(log[i].txn).date.month = log[i].month
      /\ i = Len(log) => year = log[i].year_after

\* C5, witness: a VISA statement whose lines went from December to January
\* and back to December.
C5_Witness ==
  /\ account_type = "VISA"
  /\ Len(log) = 3
  /\ \A i \in 1..3 : log[i].kind = "txn"
  /\ log[1].month = 12 /\ log[2].month = 1 /\ log[3].month = 12
  /\ log[3].year_after = start_year

\* Transactions i < j are consecutive in document order.
Consecutive(i, j) ==
  /\ i \in TxnIdx /\ j \in TxnIdx /\ i < j
  /\ \A k \in TxnIdx : ~(i < k /\ k < j)

\* The running year changed at a row after transaction i, up to j.
RolledBetween(i, j) ==
  \E r \in (i + 1)..j : log[r].year_after # log[r - 1].year_after

\* The day and month transaction j was resolved to come earlier in the
\* calendar year than those of transaction i.
EarlierInYear(i, j) ==
  LET a == Val(log[i].base)
      b == Val(log[j].base)
  IN b.month < a.month \/ (b.month = a.month /\ b.day < a.day)

\* C6, as stated: within one statement (narrative or tabular) the dates of
\* the transactions are non-decreasing in document order, except between
\* two consecutive transactions where the running year changed.
C6_DatesNonDecreasing ==
  \A i \in TxnIdx : \A j \in TxnIdx :
    Consecutive(i, j) =>
      \/ ~Before(Val(log[j].txn).date, Val(log[i].txn).date)
      \/ RolledBetween(i, j)

\* C6, amended: within one statement the date of a transaction is not
\* earlier than that of the transaction before it in document order,
\* except where the running year changed between the two or where the day
\* and month the later one was resolved to come earlier in the calendar
\* year than those of the earlier one.
C6_DatesNonDecreasingInPrintedOrder ==
  \A i \in TxnIdx : \A j \in TxnIdx :
    Consecutive(i, j) =>
      \/ ~Before(Val(log[j].txn).date, Val(log[i].txn).date)
      \/ RolledBetween(i, j)
      \/ EarlierInYear(i, j)

\* C6, witness: two consecutive transactions of the same day and year, and
\* two consecutive transactions across a change of the running year.
C6_Witness ==
  /\ \E i \in TxnIdx : \E j \in TxnIdx :
       Consecutive(i, j) /\ ~RolledBetween(i, j) /\ ~EarlierInYear(i, j)
         /\ Val(log[i].base) = Val(log[j].base)
  /\ \E i \in TxnIdx : \E j \in TxnIdx :
       Consecutive(i, j) /\ RolledBetween(i, j)

\* The positions of the spaces of a text, and the first two of them.
Spaces(f) == {i \in 1..Len(f) : f[i] = " "}
FirstSpace(f) == CHOOSE i \in Spaces(f) : \A j \in Spaces(f) : i <= j
SecondSpace(f) ==
  CHOOSE i \in Spaces(f) \ {FirstSpace(f)} :
    \A j \in Spaces(f) \ {FirstSpace(f)} : i <= j

DigitChars == <<"0", "1", "2", "3", "4", "5", "6", "7", "8", "9">>

Decimal(n) ==
  IF n < 10 THEN <<DigitChars[n + 1]>>
  ELSE <<DigitChars[(n \div 10) + 1], DigitChars[(n % 10) + 1]>>

\* tok is a way of writing n that int() reads: an optional sign (a minus
\* sign only for 0), zeros, and the decimal digits of n.
Writes(tok, n) ==
  \E sign \in {<<>>, <<"+">>, <<"-">>} : \E z \in 0..Len(tok) :
    /\ sign = <<"-">> => n = 0
    /\ tok = sign \o [i \in 1..z |-> "0"] \o Decimal(n)

DayNumber(tok) == \E n \in 0..31 : Writes(tok, n)

FieldGroceryStore ==
  <<"1", "5", " ", "J", "A", "N", " ", "G", "R", "O", "C", "E", "R", "Y",
    " ", "S", "T", "O", "R", "E">>

FieldContinued ==
  <<"G", "R", "O", "C", "E", "R", "Y", " ", "S", "T", "O", "R", "E", " ",
    "C", "O", "N", "T", "'", "D">>

\* C7: a combined field with more than two space-separated tokens whose
\* first token parses as an integer in [0, 31] gives the first two tokens
\* joined by a space as the date and the remaining tokens joined by spaces
\* as the description; every other field gives no date and the whole field
\* as the description.  "15 JAN GROCERY STORE" gives ("15 JAN",
\* "GROCERY STORE"); "GROCERY STORE CONT'D" gives (absent, the field).
C7_Split ==
  ~IsNone(split) =>
    /\ IF Cardinality(Spaces(field)) >= 2
          /\ DayNumber(SubSeq(field, 1, FirstSpace(field) - 1))
       THEN /\ Val(split).Date =
                 Some(SubSeq(field, 1, SecondSpace(field) - 1))
            /\ Val(split).Description =
                 SubSeq(field, SecondSpace(field) + 1, Len(field))
       ELSE /\ Val(split).Date = None
            /\ Val(split).Description = field
    /\ field = FieldGroceryStore =>
         /\ Val(split).Date = Some(<<"1", "5", " ", "J", "A", "N">>)
         /\ Val(split).Description =
              <<"G", "R", "O", "C", "E", "R", "Y", " ", "S", "T", "O", "R", "E">>
    /\ field = FieldContinued =>
         /\ Val(split).Date = None
         /\ Val(split).Description = FieldContinued

\* C7, witness: "15 JAN GROCERY STORE" was split.
C7_Witness ==
  /\ field = FieldGroceryStore
  /\ ~IsNone(split)
  /\ ~IsNone(Val(split).Date)

Tabular == account_type \in {"CHEQUING", "SAVINGS"}

\* C8, as stated: a combined field whose leading tokens cannot be parsed as
\* a date is treated as having no date (a carry-forward row), and no
\* format error leaves the extraction: every combined field is either
\* resolved to a date or taken as a row without a date.
C8_UnparseableCombinedIsNoDate ==
  Tabular =>
    \A i \in 1..Len(log) :
      (log[i].combined /\ log[i].source # <<>>) =>
        /\ log[i].dated \/ log[i].absent
        /\ ~(log[i].kind = "error" /\ err = "ValueError")

\* The last dated row before position i, 0 when there is none.
LastDated(i) ==
  IF \E d \in 1..(i - 1) : log[d].dated
  THEN CHOOSE d \in 1..(i - 1) :
         log[d].dated /\ \A e \in (d + 1)..(i - 1) : ~log[e].dated
  ELSE 0

\* What a carry-forward row at position i does when a dated row precedes
\* it: the transaction is dated, before the nudge, at the un-nudged date of
\* that row, and the running year and the last known date stay as they were.
CarriesForward(i) ==
  /\ log[i].kind = "txn"
  /\ LastDated(i) # 0
  /\ log[i].base = log[LastDated(i)].last_after
  /\ Val(log[i].base).second = 0
  /\ Val(log[i].base).month = log[LastDated(i)].month
  /\ log[i].year_after = log[i - 1].year_after
  /\ log[i].last_after = log[i - 1].last_after

\* A row without a date whose withdrawal or deposit is populated with a
\* number.
CarryForwardRow(i) ==
  /\ log[i].absent
  /\ log[i].monetary
  /\ ~(log[i].kind = "error" /\ err = "ValueError")

\* C9, as stated: at every position, a first retained row without a date
\* included, a row whose date is absent and whose withdrawal or deposit is
\* populated yields a transaction dated, before the nudge, at the un-nudged
\* date of the most recent preceding dated row, and changes neither the
\* running year nor the last known date.
C9_CarryForward ==
  Tabular =>
    \A i \in 1..Len(log) : CarryForwardRow(i) => CarriesForward(i)

\* C9, where a dated row precedes: the claim holds of the code.
C9_CarryForwardAfterDated ==
  Tabular =>
    \A i \in 1..Len(log) :
      (CarryForwardRow(i) /\ LastDated(i) # 0) => CarriesForward(i)

\* The running year and the last known date before row i.
YearBefore(i) == IF i = 1 THEN start_year ELSE log[i - 1].year_after
LastBefore(i) == IF i = 1 THEN None ELSE log[i - 1].last_after

\* C10: in a tabular statement the running year starts at the seed,
\* increases by exactly one at a row whose month is read exactly when a
\* last known date exists and the row's month is strictly less than its
\* month, is unchanged at every other row and never decreases; every dated
\* row becomes the last known date, also when it is then skipped for having
\* no withdrawal and no deposit; so the (year, month) of successive dated
\* rows never decrease.
C10_TabYear ==
  Tabular =>
    /\ \A i \in 1..Len(log) :
         /\ log[i].year_after =
              IF /\ log[i].month # 0
                 /\ ~IsNone(LastBefore(i))
                 /\ log[i].month < Val(LastBefore(i)).month
              THEN YearBefore(i) + 1
              ELSE YearBefore(i)
         /\ log[i].year_after >= YearBefore(i)
         /\ log[i].dated =>
              /\ ~IsNone(log[i].last_after)
              /\ Val(log[i].last_after).year = log[i].year_after
              /\ Val(log[i].last_after).month = log[i].month
              /\ Val(log[i].last_after).second = 0
         /\ ~log[i].dated => log[i].last_after = LastBefore(i)
         /\ i = Len(log) =>
              year = log[i].year_after /\ last_date = log[i].last_after
    /\ \A i \in 1..Len(log) : \A j \in 1..Len(log) :
         (i < j /\ log[i].dated /\ log[j].dated) =>
           \/ log[i].year_after < log[j].year_after
           \/ /\ log[i].year_after = log[j].year_after
              /\ log[i].month <= log[j].month

\* C10, witness: a dated row skipped for having no amount, then a dated
\* row of a lesser month, which rolls the year.
C10_Witness ==
  /\ Tabular
  /\ \E i \in 1..Len(log) :
       /\ i > 1
       /\ log[i - 1].kind = "skip" /\ log[i - 1].dated
       /\ log[i].dated
       /\ log[i].month < log[i - 1].month
       /\ log[i].year_after = start_year + 1

=============================================================================
